---- MODULE Spec2Model ----
(***************************************************************************)
(* The staged build cache of flatpak-builder (builder/builder-cache.c):    *)
(* one BuilderCache instance per build run on top of an ostree repository. *)
(* Strings are sequences of byte values, the store is a map of refs and a  *)
(* map of commits, the application directory is a map of paths to files.   *)
(***************************************************************************)
EXTENDS Integers, Sequences, FiniteSets, TLC

\* ------------------------------------------------------------------ bounds

\* cache instances (build runs) opened one after the other on the same store
MaxRuns == 2
\* commit() calls that reach the store; each one writes two commit objects
MaxCommits == 1
\* bytes absorbed by the accumulator of one instance under Spec
MaxAccLen == 2

\* bytes of a stage name handed to get_ref under SpecRef
MaxNameLen == 2
\* absorb calls made on each accumulator under SpecFraming and SpecEncode
MaxCalls == 2

\* ------------------------------------------------------- values and names

\* char *last_parent == NULL, and a ref that resolves to no commit
NoCommit == 0

\* "init", "finish": the two stage names the cache itself knows
StageInit == <<105, 110, 105, 116>>
StageFinish == <<102, 105, 110, 105, 115, 104>>
\* "b+": a stage name with a byte that get_ref rewrites
StagePlus == <<98, 43>>

\* the stage names the callers of Spec pass to lookup: one that get_ref
\* leaves as it is and one that it rewrites
Stages == {StageInit, StagePlus}

\* self->branch, "B"
Branch == <<66>>

\* the commit body text the callers pass, "m"
Bodies == {<<109>>}

\* const char *str arguments of builder_cache_checksum_str under Spec;
\* NULL is the empty set, a string is the set holding it
NullStr == {}
StrArgs == {NullStr}

\* ------------------------------------------------------------ pure helpers

\* g_ascii_isalnum
g_ascii_isalnum(c) ==
    \/ c \in 48..57
    \/ c \in 65..90
    \/ c \in 97..122

\* one hexadecimal digit as printf prints it (lower case)
HexDigit(d) == IF d < 10 THEN 48 + d ELSE 97 + (d - 10)

\* printf ("%x", n) for an unsigned n: no padding, no prefix
RECURSIVE FormatHex(_)
FormatHex(n) ==
    IF n < 16 THEN <<HexDigit(n)>>
    ELSE FormatHex(n \div 16) \o <<HexDigit(n % 16)>>

\* printf ("%x", c) for a char c: c is promoted to int and read as unsigned
\* int, so a negative char (a byte >= 128 where char is signed) prints as
\* its 32-bit two's complement, ffffff followed by the byte's two digits
FormatHexChar(signedChar, c) ==
    IF signedChar /\ c >= 128
    THEN <<102, 102, 102, 102, 102, 102>> \o FormatHex(c)
    ELSE FormatHex(c)

RECURSIVE EscapeStage(_, _)
EscapeStage(signedChar, stg) ==
    IF stg = <<>> THEN <<>>
    ELSE LET c == Head(stg)
             keep == \/ g_ascii_isalnum(c)
                     \/ c = 45
                     \/ c = 95
                     \/ c = 46
         IN (IF keep THEN <<c>> ELSE FormatHexChar(signedChar, c))
            \o EscapeStage(signedChar, Tail(stg))

\* get_ref on a build whose char is signed (signedChar) or unsigned:
\* branch, '/', then the stage name byte by byte
get_ref_char(signedChar, stg) ==
    Branch \o <<47>> \o EscapeStage(signedChar, stg)

\* get_ref for the stage names of Spec and SpecPipeline: they are ASCII,
\* where signed and unsigned char agree.
get_ref(stg) == get_ref_char(TRUE, stg)

\* Variant of the digest that tells streams apart by their length only (C5)
g_checksum_by_length(acc) == <<Len(acc)>>

\* SHA-256 as hex text (g_checksum_get_string): idealised as collision
\* free, the digest of a byte stream is the stream itself.
g_checksum_get_string(acc) == acc

\* Variant of checksum_str_bytes that feeds a NULL like an empty string
\* (C15)
checksum_str_bytes_null_as_empty(str) ==
    IF str # {}
    THEN (CHOOSE s \in str : TRUE) \o <<0>>
    ELSE <<0>>

\* the bytes builder_cache_checksum_str hands to g_checksum_update
checksum_str_bytes(str) ==
    IF str # NullStr
    THEN (CHOOSE s \in str : TRUE) \o <<0>>
    ELSE <<1>>

\* char **strv: NULL is the empty set, an array is the set holding the
\* sequence of its strings (the strings before the terminating NULL)
NullStrv == {}

\* for (i = 0; strv[i] != NULL; i++) builder_cache_checksum_str (strv[i])
RECURSIVE checksum_strv_items(_)
checksum_strv_items(items) ==
    IF items = <<>> THEN <<>>
    ELSE checksum_str_bytes({Head(items)}) \o checksum_strv_items(Tail(items))

\* the bytes builder_cache_checksum_strv hands to g_checksum_update
checksum_strv_bytes(strv) ==
    IF strv # NullStrv
    THEN <<1>> \o checksum_strv_items(CHOOSE l \in strv : TRUE)
    ELSE <<2>>

\* the byte builder_cache_checksum_boolean hands over; a gboolean is an
\* int, true when it is not 0
checksum_boolean_bytes(val) == IF val # 0 THEN <<1>> ELSE <<0>>

\* a guint32 as its two 16-bit halves, val = hi * 65536 + lo
U32(hi, lo) == [hi |-> hi, lo |-> lo]

\* Variant of checksum_uint32_bytes with the most significant byte first
\* (C18)
checksum_uint32_bytes_msb_first(val) ==
    <<val.hi \div 256, val.hi % 256, val.lo \div 256, val.lo % 256>>

\* the four bytes builder_cache_checksum_uint32 hands over:
\* v[i] = (val >> 8 * i) & 0xff
checksum_uint32_bytes(val) ==
    <<val.lo % 256, (val.lo \div 256) % 256,
      val.hi % 256, (val.hi \div 256) % 256>>

\* ------------------------------------------------------------------ files

Paths == {"f"}

NoFile == [kind |-> "none", c |-> 0, nlink |-> 0]
RegFile(c, n) == [kind |-> "reg", c |-> c, nlink |-> n]
SymLink == [kind |-> "lnk", c |-> 0, nlink |-> 1]

Directory == [kind |-> "dir", c |-> 0, nlink |-> 1]

\* what a build step of Spec leaves at a path: nothing, or a new regular
\* file (never yet linked into the store)
BuildWrites == {NoFile, RegFile(1, 1)}

\* what a build step of SpecBuild leaves at a path: also a symbolic link or
\* a directory
StageWrites == BuildWrites \cup {SymLink, Directory}

EmptyDir == [p \in Paths |-> NoFile]

\* a tree object of the store: the directory entry without its link count
TreeEntry(f) == [kind |-> f.kind, c |-> f.c]
EmptyTree == [p \in Paths |-> TreeEntry(NoFile)]

\* ------------------------------------------------------------------ state

VARIABLES
    \* the ostree repository: ref name -> commit id, commit id -> commit
    refs, commits,
    \* the next commit id the store hands out
    nextId,
    \* BuilderContext: the --rofiles option and whether rofiles-fuse runs
    use_rofiles, rofiles_active,
    \* self->app_dir on disk: path -> file
    app_dir,
    \* the run (1 for the first instance) and whether its process still runs
    run, alive,
    \* struct BuilderCache
    checksum, stage, unused_stages, last_parent, disabled,
    \* what the last call was and what it returned
    last,
    \* whether a lookup of this instance has returned miss
    missed,
    \* for each ref last written by a commit() that returned success and
    \* not deleted since: what was absorbed at that commit(), and its run
    committed,
    \* the stage names this instance has looked up, the refs that were in
    \* the store when it was opened, and every byte it was given to absorb
    looked, at_open, absorbed,
    \* the OstreeRepo of the instance: whether a transaction is open on it,
    \* and whether ostree_repo_abort_transaction can fail in this environment
    in_transaction, abort_fails,
    \* the pipeline driver of SpecPipeline: its position, the index of the
    \* stage it is at, the inputs of this run and of the run before, and the
    \* commits of this run
    pc, idx, inputs, prev_inputs, ncommits,
    \* SpecRef: a stage name, whether char is signed on the build, and the
    \* ref get_ref has made of the name (empty before the call)
    name, signed_char, stage_ref,
    \* SpecFraming and SpecEncode: two accumulators and the absorb calls made
    \* on each
    acc, calls,
    \* struct _FlatpakCliTransaction (SpecCli): the two flags and the stored
    \* error; where flatpak_cli_transaction_run stands; the operation_error
    \* calls of the run so far, each with its arguments and what it
    \* returned; what the run returned
    stop_on_first_error, first_operation_error, aborted,
    cli_pc, handled, cli_result

storeVars == <<refs, commits, nextId>>
ctxVars == <<use_rofiles, rofiles_active>>
selfVars == <<checksum, stage, unused_stages, last_parent, disabled>>
drvVars == <<pc, idx, inputs, prev_inputs, ncommits>>
cliVars == <<stop_on_first_error, first_operation_error, aborted, cli_pc,
             handled, cli_result>>
pureVars == <<name, signed_char, stage_ref, acc, calls, cliVars>>
cacheVars == <<refs, commits, nextId, use_rofiles, rofiles_active, app_dir,
               run, alive, checksum, stage, unused_stages, last_parent,
               disabled, last, missed, committed, looked, at_open, absorbed,
               in_transaction, abort_fails>>
vars == <<refs, commits, nextId, use_rofiles, rofiles_active, app_dir, run,
          alive, checksum, stage, unused_stages, last_parent, disabled, last,
          missed, committed, looked, at_open, absorbed, in_transaction,
          abort_fails, pc, idx, inputs, stop_on_first_error,
          first_operation_error, aborted, cli_pc, handled, cli_result,
          prev_inputs, ncommits, name, signed_char, stage_ref, acc, calls>>

\* the record kept in last
NoOut == [added |-> {}, modified |-> {}, removed |-> {}, xattrs |-> "none"]
\* the fields of the instance, the refs and the directory as a call finds
\* them; an open finds none
Snapshot ==
    [refs |-> refs, commits |-> commits, app_dir |-> app_dir,
     rofiles_active |-> rofiles_active, checksum |-> checksum,
     stage |-> stage, unused_stages |-> unused_stages,
     last_parent |-> last_parent, disabled |-> disabled,
     in_transaction |-> in_transaction]
NoSnapshot ==
    [refs |-> <<>>, commits |-> <<>>, app_dir |-> <<>>,
     rofiles_active |-> FALSE, checksum |-> <<>>, stage |-> <<>>,
     unused_stages |-> {}, last_parent |-> NoCommit, disabled |-> FALSE,
     in_transaction |-> FALSE]
\* first: the call is the first one on its instance; before: what it found;
\* abort: whether the call has called ostree_repo_abort_transaction, and
\* if so whether a transaction was open on the repository ("open") or not
\* ("closed")
CalledOut(op, ret, co, out) ==
    [op |-> op, ret |-> ret, co |-> co, out |-> out,
     first |-> (op # "open" /\ last.op = "open"),
     before |-> IF op = "open" THEN NoSnapshot ELSE Snapshot,
     abort |-> "none"]
Called(op, ret, co) == CalledOut(op, ret, co, NoOut)
\* out: if (!res) ostree_repo_abort_transaction (...), reached by goto out
\* with the transaction in state txn
FailedAt(op, txn) == [Called(op, "fail", "none") EXCEPT !.abort = txn]

\* ------------------------------------------------------------ store calls

\* ostree_repo_resolve_rev (repo, ref, allow_noent = TRUE, &commit)
ostree_repo_resolve_rev(ref) ==
    IF ref \in DOMAIN refs THEN refs[ref] ELSE NoCommit

\* Variant of ostree_repo_list_refs that keeps the prefix in the keys (C11)
ostree_repo_list_refs_uncut(prefix) ==
    LET n == Len(prefix) + 1
    IN { r \in DOMAIN refs : Len(r) > n /\ SubSeq(r, 1, n) = prefix \o <<47>> }

\* ostree_repo_list_refs (repo, prefix, &table): the refs under prefix/,
\* keyed by the ref name with the prefix removed
ostree_repo_list_refs(prefix) ==
    LET n == Len(prefix) + 1
    IN { SubSeq(r, n + 1, Len(r)) :
           r \in { x \in DOMAIN refs :
                     /\ Len(x) > n
                     /\ SubSeq(x, 1, n) = prefix \o <<47>> } }

\* ostree_repo_set_ref_immediate (repo, NULL, ref, NULL): the refs without ref
RefsWithout(rs, ref) == [r \in (DOMAIN rs) \ {ref} |-> rs[r]]

\* the commits reachable from a set of commits through parent links
RECURSIVE ParentClosure(_, _)
ParentClosure(cs, set) ==
    LET more == { cs[c].parent : c \in set \cap DOMAIN cs } \ ({NoCommit} \cup set)
    IN IF more = {} THEN set ELSE ParentClosure(cs, set \cup more)

\* Variant of ostree_repo_prune that is run on the refs as they are before
\* builder_gc deletes any (C27)
ostree_repo_prune_before_delete(rs, cs) ==
    LET keep == ParentClosure(cs, { refs[r] : r \in DOMAIN refs }) \cap DOMAIN cs
    IN [c \in keep |-> cs[c]]

\* ostree_repo_prune (REFS_ONLY, depth -1): keep what the refs reach
ostree_repo_prune(rs, cs) ==
    LET keep == ParentClosure(cs, { rs[r] : r \in DOMAIN rs }) \cap DOMAIN cs
    IN [c \in keep |-> cs[c]]

\* builder_context_enable_rofiles: rofiles-fuse runs from the first checkout
\* on when the build uses it
builder_context_enable_rofiles == use_rofiles \/ rofiles_active

\* Variant of the checkout mode that is user mode whether or not
\* rofiles-fuse is active (C31)
checkout_mode_always_user(active) == TRUE

\* if (builder_context_get_rofiles_active (self->context))
\*   mode = OSTREE_REPO_CHECKOUT_MODE_USER;
\* on the bare-user repository a checkout in user mode hardlinks regular
\* files to the store's objects, one in mode NONE copies them
checkout_mode_user(active) == active

\* Variant of builder_cache_checkout that never deletes the directory: the
\* commit is laid over what is there (sensitivity of C8)
builder_cache_checkout_union(cs, commit, delete_dir, fault) ==
    LET active == use_rofiles \/ rofiles_active
        tree == cs[commit].tree
        out == [p \in Paths |->
                  IF tree[p].kind = "none" THEN app_dir[p]
                  ELSE IF tree[p].kind = "reg"
                       THEN RegFile(tree[p].c, IF active THEN 2 ELSE 1)
                       ELSE IF tree[p].kind = "dir" THEN Directory
                       ELSE SymLink]
    IN IF fault \/ commit \notin DOMAIN cs
       THEN [ok |-> FALSE, dir |-> app_dir, active |-> rofiles_active]
       ELSE [ok |-> TRUE, dir |-> out, active |-> active]

\* builder_cache_checkout (self, commit, delete_dir): the directory and the
\* context after it, or failure.  g_file_delete removes only a missing or
\* empty directory; the checkout overwrites files of the same name
\* (UNION_FILES) and hardlinks regular files into the store only in user
\* mode, that is when rofiles-fuse is active.
builder_cache_checkout(cs, commit, delete_dir, fault) ==
    LET active == builder_context_enable_rofiles
        base == IF delete_dir THEN EmptyDir ELSE app_dir
        tree == cs[commit].tree
        out == [p \in Paths |->
                  IF tree[p].kind = "none" THEN base[p]
                  ELSE IF tree[p].kind = "reg"
                       THEN RegFile(tree[p].c, IF checkout_mode_user(active)
                                            THEN 2 ELSE 1)
                       ELSE IF tree[p].kind = "dir" THEN Directory
                       ELSE SymLink]
    IN IF \/ fault
          \/ delete_dir /\ app_dir # EmptyDir
          \/ commit \notin DOMAIN cs
       THEN [ok |-> FALSE, dir |-> app_dir, active |-> rofiles_active]
       ELSE [ok |-> TRUE, dir |-> out, active |-> active]

\* builder_cache_get_current: the digest of everything absorbed so far
builder_cache_get_current == g_checksum_get_string(checksum)

\* Variant of builder_cache_get_current_ref that names the ref of the
\* first stage whatever the current stage is (C37)
current_ref_of_first_stage == get_ref(StageInit)

\* builder_cache_get_current_ref; self->stage is a string here
builder_cache_get_current_ref == get_ref(stage[1])

\* ------------------------------------------------------------ construction

\* builder_cache_open on a process of its own: the legacy ref named like the
\* branch is removed, and every ref under the branch is listed as unused
OpenRefs == RefsWithout(refs, Branch)

InitCache ==
    /\ refs = <<>>
    /\ commits = <<>>
    /\ nextId = 1
    /\ use_rofiles \in BOOLEAN
    /\ rofiles_active = FALSE
    /\ app_dir = EmptyDir
    /\ run = 1
    /\ alive = TRUE
    /\ checksum = <<>>
    /\ stage = <<>>
    /\ unused_stages = {}
    /\ last_parent = NoCommit
    /\ disabled = FALSE
    /\ last = Called("open", "ok", "none")
    /\ missed = FALSE
    /\ committed = <<>>
    /\ looked = {}
    /\ at_open = {}
    /\ absorbed = <<>>
    /\ in_transaction = FALSE
    /\ pc = "absorb"
    /\ idx = 1
    /\ inputs = <<>>
    /\ prev_inputs = <<>>
    /\ ncommits = 0

\* no GError: a NULL pointer
NoError == [code |-> "none", n |-> 0, prefix |-> ""]

\* no FlatpakCliTransaction is at work
InitNoTransaction ==
    /\ stop_on_first_error = FALSE
    /\ first_operation_error = NoError
    /\ aborted = FALSE
    /\ cli_pc = "none"
    /\ handled = <<>>
    /\ cli_result = [res |-> TRUE, error |-> NoError, run |-> "none"]

\* the accumulators and the stage name of the specifications further down,
\* which Spec and SpecPipeline leave alone
InitPure ==
    /\ name = <<>>
    /\ signed_char = TRUE
    /\ stage_ref = <<>>
    /\ acc = <<<<>>, <<>>>>
    /\ calls = <<<<>>, <<>>>>
    /\ InitNoTransaction

Init == InitCache /\ InitPure /\ abort_fails = FALSE

\* A new build run: builder_cache_new, builder_cache_open.  The process of
\* the run before is gone, and with it rofiles-fuse; the caller starts on
\* an empty application directory (clean) or on the one the last run left.
builder_cache_open(clean) ==
    /\ run' = run + 1
    /\ alive' = TRUE
    /\ refs' = OpenRefs
    /\ unused_stages' = ostree_repo_list_refs(Branch)
    /\ checksum' = <<>>
    /\ stage' = <<>>
    /\ last_parent' = NoCommit
    /\ disabled' = FALSE
    /\ rofiles_active' = FALSE
    /\ missed' = FALSE
    /\ last' = Called("open", "ok", "none")
    /\ app_dir' = IF clean THEN EmptyDir ELSE app_dir
    /\ committed' = [r \in (DOMAIN committed) \ {Branch} |-> committed[r]]
    /\ looked' = {}
    /\ at_open' = DOMAIN OpenRefs
    /\ absorbed' = <<>>
    /\ in_transaction' = FALSE
    /\ UNCHANGED <<commits, nextId, use_rofiles, abort_fails>>

\* -------------------------------------------------------------- accumulator

\* Variant of builder_cache_checksum_str that starts the accumulator afresh
\* with every call (C19)
builder_cache_checksum_str_afresh(str) ==
    /\ alive
    /\ checksum' = checksum_str_bytes(str)
    /\ absorbed' = absorbed \o checksum_str_bytes(str)
    /\ last' = Called("absorb", "ok", "none")
    /\ UNCHANGED <<storeVars, ctxVars, app_dir, run, alive, stage,
                   unused_stages, last_parent, disabled, missed, looked,
                   at_open, in_transaction,
                   abort_fails, committed>>

\* builder_cache_checksum_str
builder_cache_checksum_str(str) ==
    /\ alive
    /\ checksum' = checksum \o checksum_str_bytes(str)
    /\ absorbed' = absorbed \o checksum_str_bytes(str)
    /\ last' = Called("absorb", "ok", "none")
    /\ UNCHANGED <<storeVars, ctxVars, app_dir, run, alive, stage,
                   unused_stages, last_parent, disabled, missed, looked, at_open, in_transaction,
                   abort_fails, committed>>

\* ------------------------------------------------------------------ lookup

\* outcomes of the store and file system calls of one lookup (TRUE: the
\* call succeeds)
LookupIO == [resolve : BOOLEAN, load : BOOLEAN, checkout : BOOLEAN]

\* Variants of the lines of builder_cache_lookup below: a lookup that does
\* not test the flag (C1), a comparison that is inverted (C3), a miss that
\* leaves the flag alone (C6), a hit that does not take the commit (C7)
lookup_never_returns_early == FALSE
subject_differs(subject, current) == subject # current
disabled_kept_after_miss == disabled
last_parent_kept_after_hit(commit) == last_parent

\* Variant of the removal below that comes after the test of the flag (C13)
unused_stages_kept_when_disabled(stg) ==
    IF disabled THEN unused_stages ELSE unused_stages \ {stg}

\* g_hash_table_remove (self->unused_stages, stage);
unused_stages_without(stg) == unused_stages \ {stg}

\* Variant of g_error that logs and returns, like g_warning (C21)
g_error_returns == FALSE

\* g_error ("Failed to check out cache: %s", ...): the message is logged at
\* the fatal level and the process is aborted inside the call
g_error_ends_process == TRUE

\* if (self->disabled) return FALSE;
lookup_returns_early == disabled

\* strcmp (subject, current) == 0
subject_matches(subject, current) == subject = current

\* self->disabled = TRUE;  Don't use cache any more after first miss
disabled_after_miss == TRUE

\* self->last_parent = g_steal_pointer (&commit);
last_parent_after_hit(commit) == commit

\* builder_cache_lookup
builder_cache_lookup(stg, io) ==
    LET ref == get_ref(stg)
        commit == IF io.resolve THEN ostree_repo_resolve_rev(ref) ELSE NoCommit
        loaded == commit # NoCommit /\ io.load /\ commit \in DOMAIN commits
        hit == loaded /\ subject_matches(commits[commit].subject,
                                         builder_cache_get_current)
        co == builder_cache_checkout(commits, last_parent, TRUE, ~io.checkout)
        o == IF lookup_returns_early
             THEN [ret |-> "miss", co |-> "none", parent |-> last_parent,
                   disabled |-> disabled, dir |-> app_dir,
                   active |-> rofiles_active]
             ELSE IF hit
             THEN [ret |-> "hit", co |-> "none",
                   parent |-> last_parent_after_hit(commit),
                   disabled |-> disabled, dir |-> app_dir,
                   active |-> rofiles_active]
             ELSE IF last_parent = NoCommit
             THEN [ret |-> "miss", co |-> "none", parent |-> last_parent,
                   disabled |-> disabled_after_miss, dir |-> app_dir,
                   active |-> rofiles_active]
             ELSE IF co.ok
             THEN [ret |-> "miss", co |-> "replace", parent |-> last_parent,
                   disabled |-> disabled_after_miss, dir |-> co.dir,
                   active |-> co.active]
             \* g_error: the process ends inside the call
             ELSE IF g_error_ends_process
             THEN [ret |-> "abort", co |-> "none", parent |-> last_parent,
                   disabled |-> disabled, dir |-> app_dir,
                   active |-> rofiles_active]
             ELSE [ret |-> "miss", co |-> "none", parent |-> last_parent,
                   disabled |-> disabled_after_miss, dir |-> app_dir,
                   active |-> rofiles_active]
    IN /\ alive
       /\ stage' = <<stg>>
       /\ unused_stages' = unused_stages_without(stg)
       /\ last_parent' = o.parent
       /\ disabled' = o.disabled
       /\ app_dir' = o.dir
       /\ rofiles_active' = o.active
       /\ alive' = (o.ret # "abort")
       /\ missed' = (missed \/ o.ret = "miss")
       /\ looked' = looked \cup {stg}
       /\ UNCHANGED <<at_open, in_transaction, abort_fails>>
       /\ last' = Called("lookup", o.ret, o.co)
       /\ UNCHANGED <<storeVars, use_rofiles, run, checksum, absorbed, committed>>

\* Variant of builder_cache_has_checkout that never sees a checkout (C20,
\* C38)
builder_cache_has_no_checkout == FALSE

\* builder_cache_has_checkout
builder_cache_has_checkout == disabled

\* builder_cache_ensure_checkout
builder_cache_ensure_checkout(ok) ==
    LET co == builder_cache_checkout(commits, last_parent, TRUE, ~ok)
    IN /\ alive
       /\ IF builder_cache_has_checkout
          THEN /\ last' = Called("ensure_checkout", "ok", "none")
               /\ UNCHANGED <<app_dir, rofiles_active, alive, disabled>>
          ELSE IF last_parent = NoCommit
          THEN /\ disabled' = TRUE
               /\ last' = Called("ensure_checkout", "ok", "none")
               /\ UNCHANGED <<app_dir, rofiles_active, alive>>
          ELSE IF co.ok
          THEN /\ disabled' = TRUE
               /\ app_dir' = co.dir
               /\ rofiles_active' = co.active
               /\ last' = Called("ensure_checkout", "ok", "replace")
               /\ UNCHANGED alive
          ELSE IF g_error_ends_process
          THEN /\ alive' = FALSE
               /\ last' = Called("ensure_checkout", "abort", "none")
               /\ UNCHANGED <<app_dir, rofiles_active, disabled>>
          ELSE /\ disabled' = TRUE
               /\ last' = Called("ensure_checkout", "ok", "none")
               /\ UNCHANGED <<app_dir, rofiles_active, alive>>
       /\ UNCHANGED <<storeVars, use_rofiles, run, checksum, absorbed, stage,
                      unused_stages, last_parent, missed, looked, at_open, in_transaction,
                   abort_fails, committed>>

\* Variant of builder_cache_disable_lookups that flips the flag (C2)
builder_cache_toggle_lookups ==
    /\ alive
    /\ disabled' = ~disabled
    /\ last' = Called("disable_lookups", "ok", "none")
    /\ UNCHANGED <<storeVars, ctxVars, app_dir, run, alive, checksum, absorbed, stage,
                   unused_stages, last_parent, missed, looked, at_open, in_transaction,
                   abort_fails, committed>>

\* builder_cache_disable_lookups
builder_cache_disable_lookups ==
    /\ alive
    /\ disabled' = TRUE
    /\ last' = Called("disable_lookups", "ok", "none")
    /\ UNCHANGED <<storeVars, ctxVars, app_dir, run, alive, checksum, absorbed, stage,
                   unused_stages, last_parent, missed, looked, at_open, in_transaction,
                   abort_fails, committed>>

\* ------------------------------------------------------------------ commit

\* the step of builder_cache_commit that fails, if one does
CommitSteps == {"none", "zero_mtime", "prepare", "write_tree", "write_commit",
                "write_tree2", "write_commit2", "commit_txn", "checkout"}
\* the store and file system calls of the pipeline all succeed
AllOk == [resolve |-> TRUE, load |-> TRUE, checkout |-> TRUE]

\* Variant of filter_only_non_hardlinked that lets every file pass (C29)
filter_allows_all(f) == TRUE

\* filter_only_non_hardlinked: directories pass, other non-regular files
\* are skipped, a regular file passes when stat says st_nlink == 1
filter_only_non_hardlinked(f) ==
    IF f.kind = "dir" THEN TRUE
    ELSE IF f.kind # "reg" THEN FALSE
    ELSE f.nlink = 1

\* ostree_repo_write_directory_to_mtree (app_dir, modifier)
FullTree == [p \in Paths |-> TreeEntry(app_dir[p])]
\* ostree_repo_write_directory_to_mtree (app_dir, modifier2)
FilteredTree ==
    [p \in Paths |->
       IF filter_only_non_hardlinked(app_dir[p])
       THEN TreeEntry(app_dir[p]) ELSE TreeEntry(NoFile)]

\* ostree_repo_write_commit (repo, parent, subject, body, root)
Commit(parent, subject, body, tree) ==
    [parent |-> parent, subject |-> subject, body |-> body, tree |-> tree]

\* Variants of the arguments below: a commit whose subject is the body
\* text (C4), a commit without parent (C10)
commit_subject_is_body(current, body) == body
commit_without_parent == NoCommit

\* Variant of the assignment to last_parent that takes the second commit
\* (C23)
last_parent_is_second_commit(commit_checksum, commit_checksum2) ==
    commit_checksum2

\* Variant of the ref update that leaves a stage ref that exists alone
\* (C28)
commit_ref_target_kept(commit_checksum, commit_checksum2) ==
    IF builder_cache_get_current_ref \in DOMAIN refs
    THEN refs[builder_cache_get_current_ref]
    ELSE commit_checksum

\* Variant of the checkout at the end of commit() that deletes the
\* directory first (C30)
commit_checkout_deletes == TRUE

\* builder_cache_checkout (self, commit_checksum2, FALSE, error): the
\* delete_dir argument
commit_checkout_delete_dir == FALSE

\* the parent and subject arguments of the first ostree_repo_write_commit
commit_parent == last_parent
commit_subject(current, body) == current
\* ostree_repo_transaction_set_ref (repo, NULL, ref, commit_checksum)
commit_ref_target(commit_checksum, commit_checksum2) == commit_checksum
\* self->last_parent = g_steal_pointer (&commit_checksum);
last_parent_after_commit(commit_checksum, commit_checksum2) == commit_checksum

\* if (!ostree_repo_abort_transaction (...)) g_warning (...): an abort that
\* succeeds closes the transaction, one that fails leaves it open, and the
\* call returns all the same
transaction_after_abort == IF abort_fails THEN {FALSE, TRUE} ELSE {FALSE}

\* builder_cache_commit
builder_cache_commit(body, fail) ==
    LET current == builder_cache_get_current
        commit_checksum == nextId
        commit_checksum2 == nextId + 1
        written ==
            (commit_checksum :> Commit(commit_parent,
                                       commit_subject(current, body),
                                       body, FullTree))
            @@ (commit_checksum2 :> Commit(NoCommit, current, body,
                                           FilteredTree))
            @@ commits
        ref == builder_cache_get_current_ref
        landed == (ref :> commit_ref_target(commit_checksum, commit_checksum2))
                  @@ refs
        co == builder_cache_checkout(written, commit_checksum2,
                                     commit_checkout_delete_dir,
                                     fail = "checkout")
    IN /\ alive
       \* ostree_repo_prepare_transaction fails on a repository that has a
       \* transaction open
       /\ in_transaction => fail \in {"zero_mtime", "prepare"}
       /\ IF fail \in {"zero_mtime", "prepare"}
          THEN \* return FALSE, no transaction opened by this call
               /\ last' = Called("commit", "fail", "none")
               /\ UNCHANGED <<storeVars, rofiles_active, app_dir, alive,
                              last_parent, committed, in_transaction>>
          ELSE IF fail \in {"write_tree", "write_commit"}
          THEN \* goto out: the transaction is aborted
               /\ last' = FailedAt("commit", "open")
               /\ in_transaction' \in transaction_after_abort
               /\ UNCHANGED <<storeVars, rofiles_active, app_dir, alive,
                              last_parent, committed>>
          ELSE IF stage = <<>>
          THEN \* get_ref (self, NULL) reads through the null pointer
               /\ alive' = FALSE
               /\ last' = Called("commit", "crash", "none")
               /\ in_transaction' = TRUE
               /\ UNCHANGED <<storeVars, rofiles_active, app_dir, last_parent,
                              committed>>
          ELSE IF fail \in {"write_tree2", "write_commit2", "commit_txn"}
          THEN /\ last' = FailedAt("commit", "open")
               /\ in_transaction' \in transaction_after_abort
               /\ UNCHANGED <<storeVars, rofiles_active, app_dir, alive,
                              last_parent, committed>>
          ELSE \* ostree_repo_commit_transaction has succeeded
               /\ in_transaction' = FALSE
               /\ commits' = written
               /\ refs' = landed
               /\ nextId' = nextId + 2
               /\ UNCHANGED alive
               /\ IF use_rofiles /\ ~co.ok
                  THEN \* goto out: abort with no transaction open
                       /\ last' = FailedAt("commit", "closed")
                       /\ committed' =
                              [r \in (DOMAIN committed) \ {ref} |-> committed[r]]
                       /\ UNCHANGED <<rofiles_active, app_dir, last_parent>>
                  ELSE /\ app_dir' = IF use_rofiles THEN co.dir ELSE app_dir
                       /\ rofiles_active' =
                              IF use_rofiles THEN co.active ELSE rofiles_active
                       /\ last_parent' =
                              last_parent_after_commit(commit_checksum,
                                                       commit_checksum2)
                       /\ committed' =
                              (ref :> [absorbed |-> checksum, run |-> run])
                              @@ committed
                       /\ last' = Called("commit", "ok",
                                         IF use_rofiles THEN "union" ELSE "none")
       /\ UNCHANGED <<use_rofiles, run, checksum, absorbed, stage, unused_stages,
                      disabled, missed, looked, at_open,
                      abort_fails>>

\* ------------------------------------------------------------ change tracker

\* A GFile of a diff: the root it lives under and its path below that root
FileAt(root, p) == [root |-> root, path |-> p]

\* g_file_get_relative_path (parent, descendant): NULL for a file that is
\* not below parent
g_file_get_relative_path(root, f) ==
    IF f.root = root THEN f.path ELSE "NULL"

\* ostree_diff_dirs (flags, a, b, modified, removed, added) on the trees ta
\* (under root a) and tb (under root b): added files are files of b,
\* removed files are files of a, a modified item's target is the file of b
ostree_diff_dirs(a, ta, b, tb) ==
    [added |-> { FileAt(b, p) : p \in { q \in Paths :
                     ta[q].kind = "none" /\ tb[q].kind # "none" } },
     removed |-> { FileAt(a, p) : p \in { q \in Paths :
                     ta[q].kind # "none" /\ tb[q].kind = "none" } },
     modified |-> { FileAt(b, p) : p \in { q \in Paths :
                     /\ ta[q].kind # "none"
                     /\ tb[q].kind # "none"
                     /\ ta[q] # tb[q] } }]

\* the paths of a set of files relative to root
RelativePaths(root, files) == { g_file_get_relative_path(root, f) : f \in files }

\* ostree_repo_read_commit succeeds on a commit the store holds
Readable(c) == c # NoCommit /\ c \in DOMAIN commits

\* Variant of the frame of the three diff operations in which the call
\* gives up self->last_parent (C26)
FrameWithoutLastParent ==
    /\ last_parent' = NoCommit
    /\ UNCHANGED <<storeVars, ctxVars, app_dir, run, alive, checksum,
                   absorbed, stage, unused_stages, disabled, missed, looked,
                   at_open, in_transaction, abort_fails, committed>>

\* what the three diff operations leave alone: they only read
ReadOnlyFrame ==
    UNCHANGED <<storeVars, ctxVars, app_dir, run, alive, checksum, absorbed, stage,
                unused_stages, last_parent, disabled, missed, looked, at_open, in_transaction,
                   abort_fails, committed>>

\* builder_cache_get_outstanding_changes: last_parent against the directory
builder_cache_get_outstanding_changes(ok) ==
    LET d == ostree_diff_dirs("last_root", commits[last_parent].tree,
                              "app_dir", FullTree)
    IN /\ alive
       /\ last' = IF ok /\ Readable(last_parent)
                  THEN CalledOut("outstanding_changes", "ok", "none",
                           [added |-> RelativePaths("app_dir", d.added),
                            modified |-> RelativePaths("app_dir", d.modified),
                            removed |-> RelativePaths("app_dir", d.removed),
                            xattrs |-> "ignored"])
                  ELSE Called("outstanding_changes", "fail", "none")
       /\ ReadOnlyFrame

\* builder_cache_get_all_changes: the "init" ref against the "finish" ref;
\* the result is the added and the modified paths
builder_cache_get_all_changes(ok) ==
    LET init_ref == get_ref(StageInit)
        finish_ref == get_ref(StageFinish)
        init_commit == ostree_repo_resolve_rev(init_ref)
        finish_commit == ostree_repo_resolve_rev(finish_ref)
        d == ostree_diff_dirs("init_root", commits[init_commit].tree,
                              "finish_root", commits[finish_commit].tree)
    IN /\ alive
       /\ last' = IF ok /\ Readable(init_commit) /\ Readable(finish_commit)
                  THEN CalledOut("all_changes", "ok", "none",
                           [added |-> RelativePaths("finish_root", d.added),
                            modified |-> RelativePaths("finish_root", d.modified),
                            removed |-> {},
                            xattrs |-> "compared"])
                  ELSE Called("all_changes", "fail", "none")
       /\ ReadOnlyFrame

\* builder_cache_get_changes: last_parent against its parent commit (an
\* empty tree when it has none); the result is the added and the modified
\* paths
builder_cache_get_changes(ok) ==
    LET parent_commit == commits[last_parent].parent
        parent_tree == IF parent_commit = NoCommit THEN EmptyTree
                       ELSE commits[parent_commit].tree
        d == ostree_diff_dirs("parent_root", parent_tree,
                              "current_root", commits[last_parent].tree)
    IN /\ alive
       /\ last' = IF /\ ok
                     /\ Readable(last_parent)
                     /\ (parent_commit = NoCommit \/ Readable(parent_commit))
                  THEN CalledOut("changes", "ok", "none",
                           [added |-> RelativePaths("current_root", d.added),
                            modified |-> RelativePaths("current_root", d.modified),
                            removed |-> {},
                            xattrs |-> "compared"])
                  ELSE Called("changes", "fail", "none")
       /\ ReadOnlyFrame

\* ------------------------------------------------------- garbage collector

GcSteps == {"none", "delete", "prune"}

\* the refs without those of the unused stages in dead
DeleteUnused(dead) ==
    [r \in (DOMAIN refs) \ { get_ref(u) : u \in dead } |-> refs[r]]

\* builder_gc: every key of unused_stages loses its ref, in the hash
\* table's order, then the store is pruned.  A failing deletion ends the
\* call with the refs in done already gone.
builder_gc(fail, done) ==
    /\ alive
    /\ IF fail = "delete"
       THEN /\ unused_stages # {}
            /\ done # unused_stages
            /\ refs' = DeleteUnused(done)
            /\ last' = Called("gc", "fail", "none")
            /\ UNCHANGED commits
       ELSE /\ done = unused_stages
            /\ refs' = DeleteUnused(done)
            /\ IF fail = "prune"
               THEN /\ last' = Called("gc", "fail", "none")
                    /\ UNCHANGED commits
               ELSE /\ commits' = ostree_repo_prune(refs', commits)
                    /\ last' = Called("gc", "ok", "none")
    /\ committed' = [r \in (DOMAIN committed) \cap (DOMAIN refs') |->
                       committed[r]]
    /\ UNCHANGED <<nextId, ctxVars, app_dir, run, alive, checksum, absorbed, stage,
                   unused_stages, last_parent, disabled, missed, looked, at_open, in_transaction,
                   abort_fails>>

\* ------------------------------------------------------------- environment

\* The build commands of a stage change the application directory; the
\* builder runs them once the directory is checked out (has_checkout)
BuildStep(p, f) ==
    /\ alive
    /\ builder_cache_has_checkout
    /\ app_dir[p] # f
    /\ app_dir' = [app_dir EXCEPT ![p] = f]
    /\ last' = Called("build", "ok", "none")
    /\ UNCHANGED <<storeVars, ctxVars, run, alive, checksum, absorbed, stage,
                   unused_stages, last_parent, disabled, missed, looked, at_open, in_transaction,
                   abort_fails, committed>>

\* ----------------------------------------------------------- specification

\* Any caller: every operation in any order, every call able to fail
Next ==
    \/ \E clean \in BOOLEAN :
          run < MaxRuns /\ builder_cache_open(clean) /\ UNCHANGED <<drvVars, pureVars>>
    \/ \E str \in StrArgs :
          /\ Len(checksum) + Len(checksum_str_bytes(str)) <= MaxAccLen
          /\ builder_cache_checksum_str(str)
          /\ UNCHANGED <<drvVars, pureVars>>
    \/ \E stg \in Stages, io \in LookupIO :
          builder_cache_lookup(stg, io) /\ UNCHANGED <<drvVars, pureVars>>
    \/ \E ok \in BOOLEAN :
          builder_cache_ensure_checkout(ok) /\ UNCHANGED <<drvVars, pureVars>>
    \/ builder_cache_disable_lookups /\ UNCHANGED <<drvVars, pureVars>>
    \/ \E body \in Bodies, fail \in CommitSteps :
          /\ nextId + 1 <= 2 * MaxCommits
          /\ builder_cache_commit(body, fail)
          /\ UNCHANGED <<drvVars, pureVars>>
    \/ \E ok \in BOOLEAN :
          builder_cache_get_outstanding_changes(ok) /\ UNCHANGED <<drvVars, pureVars>>
    \/ \E ok \in BOOLEAN :
          builder_cache_get_all_changes(ok) /\ UNCHANGED <<drvVars, pureVars>>
    \/ \E ok \in BOOLEAN :
          builder_cache_get_changes(ok) /\ UNCHANGED <<drvVars, pureVars>>
    \/ \E fail \in GcSteps, done \in SUBSET unused_stages :
          builder_gc(fail, done) /\ UNCHANGED <<drvVars, pureVars>>
    \/ \E p \in Paths, f \in BuildWrites :
          BuildStep(p, f) /\ UNCHANGED <<drvVars, pureVars>>

Spec == Init /\ [][Next]_vars

\* ------------------------------------------------------------ the pipeline

\* The builder's loop over the stages of one manifest, run after run on the
\* same store: absorb the stage's input, look the stage up, and on a miss
\* build and commit; after the last stage make sure the directory is
\* checked out.  Every store call succeeds.
Pipeline == <<StageInit, StagePlus, StageFinish>>

\* the input of a stage: "a" or "X"
PipeInputs == {{<<97>>}, {<<88>>}}

AfterStage == IF idx < Len(Pipeline) THEN "absorb" ELSE "finish"

PipeAbsorb ==
    /\ UNCHANGED pureVars
    /\ pc = "absorb"
    /\ \E str \in PipeInputs :
          /\ builder_cache_checksum_str(str)
          /\ inputs' = Append(inputs, str)
    /\ pc' = "lookup"
    /\ UNCHANGED <<idx, prev_inputs, ncommits>>

PipeLookup ==
    /\ UNCHANGED pureVars
    /\ pc = "lookup"
    /\ builder_cache_lookup(Pipeline[idx], AllOk)
    /\ IF last'.ret = "hit"
       THEN pc' = AfterStage /\ idx' = idx + 1
       ELSE pc' = "build" /\ idx' = idx
    /\ UNCHANGED <<inputs, prev_inputs, ncommits>>

PipeBuild ==
    /\ UNCHANGED pureVars
    /\ pc = "build"
    /\ \E p \in Paths, f \in BuildWrites : BuildStep(p, f)
    /\ pc' = "commit"
    /\ UNCHANGED <<idx, inputs, prev_inputs, ncommits>>

PipeCommit ==
    /\ UNCHANGED pureVars
    /\ pc = "commit"
    /\ \E body \in Bodies : builder_cache_commit(body, "none")
    /\ pc' = AfterStage
    /\ idx' = idx + 1
    /\ ncommits' = ncommits + 1
    /\ UNCHANGED <<inputs, prev_inputs>>

PipeFinish ==
    /\ UNCHANGED pureVars
    /\ pc = "finish"
    /\ builder_cache_ensure_checkout(TRUE)
    /\ pc' = "done"
    /\ UNCHANGED <<idx, inputs, prev_inputs, ncommits>>

PipeNewRun ==
    /\ UNCHANGED pureVars
    /\ pc = "done"
    /\ run < MaxRuns
    /\ builder_cache_open(TRUE)
    /\ pc' = "absorb"
    /\ idx' = 1
    /\ prev_inputs' = inputs
    /\ inputs' = <<>>
    /\ ncommits' = 0

NextPipeline ==
    \/ PipeAbsorb
    \/ PipeLookup
    \/ PipeBuild
    \/ PipeCommit
    \/ PipeFinish
    \/ PipeNewRun

SpecPipeline == Init /\ [][NextPipeline]_vars

\* ------------------------------------------------------- building stages

\* commit() calls of SpecBuild that reach the store
MaxBuildCommits == 2
\* the one step of commit() that can fail under SpecBuild
BuildFaults == {"none", "checkout"}
\* bytes absorbed by the instance of SpecBuild
MaxBuildAccLen == 1

\* One run of a caller whose store calls succeed, but for the checkout at
\* the end of commit(): it absorbs, looks up "init" and "finish", builds
\* regular files, symbolic links and directories, commits, and asks for
\* the changes.
NextBuild ==
    \/ \E str \in StrArgs :
          /\ Len(checksum) + Len(checksum_str_bytes(str)) <= MaxBuildAccLen
          /\ builder_cache_checksum_str(str)
          /\ UNCHANGED <<drvVars, pureVars>>
    \/ \E stg \in {StageInit, StageFinish} :
          builder_cache_lookup(stg, AllOk) /\ UNCHANGED <<drvVars, pureVars>>
    \/ \E p \in Paths, f \in StageWrites :
          BuildStep(p, f) /\ UNCHANGED <<drvVars, pureVars>>
    \/ \E body \in Bodies, fail \in BuildFaults :
          /\ nextId + 1 <= 2 * MaxBuildCommits
          /\ builder_cache_commit(body, fail)
          /\ UNCHANGED <<drvVars, pureVars>>
    \/ builder_cache_get_outstanding_changes(TRUE)
          /\ UNCHANGED <<drvVars, pureVars>>
    \/ builder_cache_get_all_changes(TRUE) /\ UNCHANGED <<drvVars, pureVars>>
    \/ builder_cache_get_changes(TRUE) /\ UNCHANGED <<drvVars, pureVars>>

SpecBuild == Init /\ [][NextBuild]_vars

\* ----------------------------------------------------- commit after a hit

\* A caller that does not go by the result of lookup: run after run it
\* absorbs, looks stages up and commits, the commit able to fail at any
\* step.
NextRecommit ==
    \/ run < MaxRuns /\ builder_cache_open(TRUE)
          /\ UNCHANGED <<drvVars, pureVars>>
    \/ \E str \in StrArgs :
          /\ Len(checksum) + Len(checksum_str_bytes(str)) <= MaxBuildAccLen
          /\ builder_cache_checksum_str(str)
          /\ UNCHANGED <<drvVars, pureVars>>
    \/ \E stg \in Stages :
          builder_cache_lookup(stg, AllOk) /\ UNCHANGED <<drvVars, pureVars>>
    \/ \E body \in Bodies, fail \in CommitSteps :
          /\ nextId + 1 <= 2 * MaxBuildCommits
          /\ builder_cache_commit(body, fail)
          /\ UNCHANGED <<drvVars, pureVars>>

SpecRecommit == Init /\ [][NextRecommit]_vars

\* ------------------------------------------------- a store whose abort fails

\* Any caller, on a store where aborting a transaction can fail
InitTxn == InitCache /\ InitPure /\ abort_fails = TRUE

SpecTxn == InitTxn /\ [][Next]_vars

\* ------------------------------------------------------ get_ref on its own

\* the bytes of the stage names of SpecRef: '\n', '+', '-', '2', 'b' and
\* 0xe9, a byte above the ASCII range
NameBytes == {10, 43, 45, 50, 98, 233}

\* the strings over a set of bytes with at most n bytes
StringsUpTo(bytes, n) == UNION { [1..k -> bytes] : k \in 0..n }

\* a stage name and a build are given
InitRef ==
    /\ InitCache
    /\ use_rofiles = FALSE
    /\ name \in StringsUpTo(NameBytes, MaxNameLen)
    /\ signed_char \in BOOLEAN
    /\ abort_fails = FALSE
    /\ InitNoTransaction
    /\ stage_ref = <<>>
    /\ acc = <<<<>>, <<>>>>
    /\ calls = <<<<>>, <<>>>>

\* ref = get_ref (self, name)
GetRef ==
    /\ stage_ref = <<>>
    /\ stage_ref' = get_ref_char(signed_char, name)
    /\ UNCHANGED <<cacheVars, drvVars, name, signed_char, acc, calls, cliVars>>

NextRef == GetRef

SpecRef == InitRef /\ [][NextRef]_vars

\* ----------------------------------------------- the absorb calls on their own

\* the arguments of the absorb calls: NULL, "", "\1", "a" as strings;
\* NULL, {} and {"a"} as string arrays; three gbooleans; guint32 values
\* with the halves 0, 1, 0x100 and 0xffff
StrSample == {NullStr, {<<>>}, {<<1>>}, {<<97>>}}
StrvSample == {NullStrv, {<<>>}, {<< <<97>> >>}}
BooleanSample == {0, 1, 2}
HalfSample == {0, 1, 256, 65535}

\* the record of one absorb call
AbsorbCall(fn, arg) == [fn |-> fn, arg |-> arg]

\* g_checksum_update (accumulator i, bytes), noted as the call fn(arg)
Absorb(i, fn, arg, bytes) ==
    /\ Len(calls[i]) < MaxCalls
    /\ acc' = [acc EXCEPT ![i] = @ \o bytes]
    /\ calls' = [calls EXCEPT ![i] = Append(@, AbsorbCall(fn, arg))]
    /\ UNCHANGED <<cacheVars, drvVars, name, signed_char, stage_ref,
                   cliVars>>

checksum_str(i, str) == Absorb(i, "str", str, checksum_str_bytes(str))
checksum_strv(i, strv) == Absorb(i, "strv", strv, checksum_strv_bytes(strv))
checksum_boolean(i, val) ==
    Absorb(i, "boolean", val, checksum_boolean_bytes(val))
checksum_uint32(i, val) ==
    Absorb(i, "uint32", val, checksum_uint32_bytes(val))

InitAbsorb ==
    InitCache /\ use_rofiles = FALSE /\ InitPure /\ abort_fails = FALSE

\* two instances absorb strings and string arrays
NextFraming ==
    \/ \E i \in {1, 2}, str \in StrSample : checksum_str(i, str)
    \/ \E i \in {1, 2}, strv \in StrvSample : checksum_strv(i, strv)

SpecFraming == InitAbsorb /\ [][NextFraming]_vars

\* one instance absorbs booleans and 32-bit values
NextEncode ==
    \/ \E val \in BooleanSample : checksum_boolean(1, val)
    \/ \E hi \in HalfSample, lo \in HalfSample : checksum_uint32(1, U32(hi, lo))

SpecEncode == InitAbsorb /\ [][NextEncode]_vars

\* ------------------------------------------------------------------ claims

\* C1: once a lookup of an instance has returned miss, every later lookup
\* of that instance returns miss, whatever the stage ref resolves to: a
\* lookup that has just returned on an instance with a miss behind it (its
\* own or an earlier one) has returned miss.
C1_MissIsSticky ==
    (last.op = "lookup" /\ missed) => last.ret = "miss"

\* C1 case: in the first run a lookup after the first miss returns miss
\* although the stage ref resolves to a commit whose subject is the digest
C1_LaterLookupOverMatchingCommit ==
    /\ run = 1 /\ missed
    /\ last.op = "lookup" /\ last.ret = "miss" /\ ~last.first
    /\ stage # <<>>
    /\ LET c == ostree_repo_resolve_rev(get_ref(stage[1]))
       IN c \in DOMAIN commits
          /\ commits[c].subject = g_checksum_get_string(checksum)

\* C2: no operation on an instance takes Disabled from true back to false
\* (run' = run: the step stays on the instance).
C2_DisabledIsMonotonic ==
    [][(disabled /\ run' = run) => disabled']_vars

\* C2 case: a commit has succeeded on an instance whose flag was set by a
\* miss, and the flag is still set
C2_DisabledAcrossCommit ==
    /\ disabled /\ missed
    /\ last.op = "commit" /\ last.ret = "ok"

\* C3: a lookup of stage S on a later instance that has absorbed what the
\* instance of a successful commit() of S had absorbed, with the cache
\* still enabled and the store readable, returns hit.
C3_CommitThenFreshLookupHits ==
    [][\A stg \in Stages, io \in LookupIO :
          ( /\ builder_cache_lookup(stg, io)
            /\ io.resolve /\ io.load
            /\ ~missed /\ ~disabled
            /\ get_ref(stg) \in DOMAIN committed
            /\ committed[get_ref(stg)].run < run
            /\ committed[get_ref(stg)].absorbed = checksum )
          => last'.ret = "hit"]_vars

\* C3 case: a hit on the commit an earlier run made after absorbing a string
C3_HitOnEarlierRunsCommit ==
    /\ last.op = "lookup" /\ last.ret = "hit"
    /\ stage # <<>> /\ checksum # <<>>
    /\ get_ref(stage[1]) \in DOMAIN committed
    /\ committed[get_ref(stage[1])].run < run
    /\ committed[get_ref(stage[1])].absorbed = checksum

\* the inputs of this run so far are those of the run before
SameInputs ==
    /\ Len(inputs) <= Len(prev_inputs)
    /\ \A i \in 1..Len(inputs) : inputs[i] = prev_inputs[i]

\* C4: in the first pipeline run on the empty store every lookup misses and
\* every stage is committed; in a run with the inputs of the run before
\* every lookup hits and nothing is committed.
C4_SecondRunHitsEveryStage ==
    /\ run = 1 =>
          /\ last.op = "lookup" => last.ret = "miss"
          /\ ncommits = idx - 1
    /\ (run > 1 /\ SameInputs) =>
          /\ last.op = "lookup" => last.ret = "hit"
          /\ ~missed
          /\ ncommits = 0

\* C4 case: a second run with the inputs of the first is through all stages
C4_SecondRunDone ==
    /\ run = 2 /\ pc = "done"
    /\ inputs = prev_inputs
    /\ Len(inputs) = Len(Pipeline)
    /\ ncommits = 0

\* the inputs of this run so far differ from those of the run before at
\* stage k and nowhere else
OnlyDiffAt(k) ==
    /\ Len(inputs) <= Len(prev_inputs)
    /\ \A i \in 1..Len(inputs) : (inputs[i] = prev_inputs[i]) <=> (i # k)

\* C5: in a run whose inputs differ from the run before at stage k only,
\* the lookups of the stages before k hit and those of k and after miss.
C5_ChangeAtStageK ==
    \A k \in 1..Len(Pipeline) :
       (run > 1 /\ last.op = "lookup" /\ OnlyDiffAt(k))
       => (last.ret = "hit" <=> Len(inputs) < k)
          /\ last.ret \in {"hit", "miss"}

\* C5 case: the input of the second stage changed, the first stage hit and
\* the third stage, with its input unchanged, has missed
C5_StageAfterChangeMisses ==
    /\ run = 2 /\ OnlyDiffAt(2)
    /\ Len(inputs) = 3
    /\ last.op = "lookup" /\ last.ret = "miss"

\* C6: the first call after open() being a lookup on the empty store, it
\* returns miss, sets Disabled and checks nothing out, Last Parent unset.
C6_FirstLookupOnEmptyStore ==
    (last.op = "lookup" /\ last.first /\ refs = <<>> /\ commits = <<>>)
    => /\ last.ret = "miss"
       /\ last.co = "none"
       /\ disabled
       /\ last_parent = NoCommit

\* C6 case: that lookup has returned
C6_FirstLookupDone ==
    /\ last.op = "lookup" /\ last.first
    /\ refs = <<>> /\ commits = <<>>
    /\ alive

\* the commit a lookup of stg with outcomes io gets to compare
LookupMatches(stg, io) ==
    LET c == ostree_repo_resolve_rev(get_ref(stg))
    IN /\ ~disabled
       /\ io.resolve /\ c # NoCommit
       /\ io.load /\ c \in DOMAIN commits
       /\ commits[c].subject = g_checksum_get_string(checksum)

\* C7: a lookup returns hit exactly when Disabled is false, the stage ref
\* resolves, the commit is readable and its subject is the digest; a hit
\* sets Last Parent to that commit and leaves Disabled and the directory
\* alone; everything else is a miss, the lookup ending the process only
\* when the checkout of its first miss fails.
C7_HitExactlyOnMatch ==
    [][\A stg \in Stages, io \in LookupIO :
          builder_cache_lookup(stg, io) =>
             IF LookupMatches(stg, io)
             THEN /\ last'.ret = "hit"
                  /\ last_parent' = ostree_repo_resolve_rev(get_ref(stg))
                  /\ ~disabled'
                  /\ last'.co = "none"
                  /\ app_dir' = app_dir /\ rofiles_active' = rofiles_active
             ELSE \/ last'.ret = "miss"
                  \/ /\ last'.ret = "abort"
                     /\ ~disabled /\ last_parent # NoCommit
                     /\ \/ ~io.checkout
                        \/ app_dir # EmptyDir
                        \/ last_parent \notin DOMAIN commits]_vars

\* C7 case: a hit that moved Last Parent, Disabled still false
C7_HitTakesCommit ==
    /\ last.op = "lookup" /\ last.ret = "hit"
    /\ ~disabled
    /\ last_parent = ostree_repo_resolve_rev(get_ref(stage[1]))
    /\ last_parent # NoCommit

\* C8: a lookup that returns miss leaves Last Parent as it was and Disabled
\* set; the first miss replaces the directory by the tree of Last Parent
\* when Last Parent is set and checks nothing out when it is not.
C8_FirstMissChecksOutLastParent ==
    [][\A stg \in Stages, io \in LookupIO :
          (builder_cache_lookup(stg, io) /\ last'.ret = "miss") =>
             /\ last_parent' = last_parent
             /\ disabled'
             /\ IF ~disabled /\ last_parent # NoCommit
                THEN /\ last'.co = "replace"
                     /\ \A p \in Paths :
                           TreeEntry(app_dir'[p]) = commits[last_parent].tree[p]
                ELSE /\ last'.co = "none"
                     /\ app_dir' = app_dir]_vars

\* C8 case: a first miss has checked out a Last Parent that holds a file
C8_MissCheckedOutParent ==
    /\ last.op = "lookup" /\ last.ret = "miss" /\ last.co = "replace"
    /\ disabled
    /\ last_parent \in DOMAIN commits
    /\ \E p \in Paths : commits[last_parent].tree[p].kind # "none"
    /\ \A p \in Paths : TreeEntry(app_dir[p]) = commits[last_parent].tree[p]

\* C9: a commit() that returns failure leaves the refs and the commits of
\* the store as they were before the call.
C9_FailedCommitLeavesStore ==
    [][\A body \in Bodies, fail \in CommitSteps :
          (builder_cache_commit(body, fail) /\ last'.ret = "fail")
          => (refs' = refs /\ commits' = commits)]_vars

\* C10: after a commit() that returns success the stage ref resolves to the
\* first commit of the call, whose parent is the Last Parent of before the
\* call and whose subject is the digest, and Last Parent is that commit.
C10_CommitMovesRefAndParent ==
    [][\A body \in Bodies, fail \in CommitSteps :
          (builder_cache_commit(body, fail) /\ last'.ret = "ok") =>
             LET c == ostree_repo_resolve_rev(get_ref(stage[1]))'
             IN /\ c = nextId
                /\ c \in DOMAIN commits'
                /\ commits'[c].parent = last_parent
                /\ commits'[c].subject = g_checksum_get_string(checksum)
                /\ commits'[c].tree = [p \in Paths |-> TreeEntry(app_dir[p])]
                /\ last_parent' = c]_vars

\* C10 case: a commit on top of a Last Parent that has a parent itself
C10_CommitOnParent ==
    /\ last.op = "commit" /\ last.ret = "ok"
    /\ stage # <<>>
    /\ ostree_repo_resolve_rev(get_ref(stage[1])) = last_parent
    /\ last_parent \in DOMAIN commits
    /\ commits[last_parent].parent \in DOMAIN commits

\* the refs of at_open that no stage looked up by this instance derives
NeverLookedUp == { r \in at_open : \A s \in looked : get_ref(s) # r }

\* C11: after a builder_gc that returned success no ref is left that was
\* in the store at open and whose stage the instance has not looked up.
C11_CollectDropsUnusedRefs ==
    (last.op = "gc" /\ last.ret = "ok")
    => \A r \in NeverLookedUp : r \notin DOMAIN refs

\* C11 case: a builder_gc has removed such a ref on an instance that has
\* looked up another stage
C11_UnusedRefDropped ==
    /\ last.op = "gc" /\ last.ret = "ok"
    /\ looked # {}
    /\ \E r \in NeverLookedUp :
          r \in DOMAIN last.before.refs /\ r \notin DOMAIN refs

\* C12: builder_gc leaves the ref of every stage the instance has looked
\* up in the store, whatever bytes the stage name is made of.
C12_CollectKeepsLookedUpRefs ==
    last.op = "gc"
    => \A s \in looked :
          get_ref(s) \in DOMAIN last.before.refs => get_ref(s) \in DOMAIN refs

\* C13: every lookup of S, also one that finds Disabled set, makes S the
\* current stage and takes the key S, and no other, out of unused_stages.
C13_LookupMarksStage ==
    [][\A stg \in Stages, io \in LookupIO :
          builder_cache_lookup(stg, io) =>
             /\ stage' = <<stg>>
             /\ stg \notin unused_stages'
             /\ unused_stages' \cup {stg} = unused_stages \cup {stg}]_vars

\* C13 case: a lookup that found Disabled set has returned miss and has
\* taken its stage out of unused_stages
C13_DisabledLookupMarkedStage ==
    /\ last.op = "lookup" /\ last.ret = "miss"
    /\ last.before.disabled
    /\ stage # <<>>
    /\ stage[1] \in last.before.unused_stages
    /\ stage[1] \notin unused_stages

\* C19: the accumulator holds every byte the instance was given to absorb,
\* in order; no call but an absorb (and the open that creates the
\* instance) changes it; the subject a commit() writes and the subject a
\* hit has matched are the digest of all those bytes.
C19_AccumulatorAppendOnly ==
    /\ checksum = absorbed
    /\ last.op \notin {"open", "absorb"} => checksum = last.before.checksum
    /\ ( /\ last.op \in {"lookup", "commit"}
         /\ last.ret \in {"hit", "ok"} )
       => commits[last_parent].subject = g_checksum_get_string(absorbed)

\* C19 case: a commit() of a looked-up stage after two absorbs
C19_CommitAfterTwoAbsorbs ==
    /\ last.op = "commit" /\ last.ret = "ok"
    /\ looked # {}
    /\ Len(absorbed) = 2
    /\ Len(last.before.checksum) = 2

\* C20: an ensure_checkout that returns leaves Disabled set; it has
\* replaced the directory by the tree of Last Parent exactly when it found
\* Disabled clear and Last Parent set; one that found Disabled set has
\* changed nothing; one that ends the process found Disabled clear and
\* Last Parent set.
C20_EnsureCheckoutIdempotent ==
    last.op = "ensure_checkout" =>
       IF last.ret = "ok"
       THEN /\ disabled
            /\ last.co = "replace"
               <=> (~last.before.disabled /\ last.before.last_parent # NoCommit)
            /\ last.co = "replace" =>
                  \A p \in Paths :
                     TreeEntry(app_dir[p]) = commits[last_parent].tree[p]
            /\ last.co # "replace" => app_dir = last.before.app_dir
            /\ last.before.disabled => Snapshot = last.before
            /\ [Snapshot EXCEPT !.disabled = FALSE, !.app_dir = <<>>,
                                !.rofiles_active = FALSE]
               = [last.before EXCEPT !.disabled = FALSE, !.app_dir = <<>>,
                                     !.rofiles_active = FALSE]
       ELSE ~last.before.disabled /\ last.before.last_parent # NoCommit

\* C20 case: an ensure_checkout on an instance with Last Parent set that an
\* earlier ensure_checkout or disable_lookups, not a miss, has disabled
C20_SecondEnsureCheckout ==
    /\ last.op = "ensure_checkout" /\ last.ret = "ok"
    /\ last.before.disabled /\ ~missed
    /\ last_parent # NoCommit
    /\ app_dir # EmptyDir

\* percent_escape as the claim has it: alphanumerics, '-', '_' and '.' are
\* copied, every other byte is written as its value in hexadecimal
RECURSIVE PercentEscape(_)
PercentEscape(stg) ==
    IF stg = <<>> THEN <<>>
    ELSE LET c == Head(stg)
         IN (IF \/ c \in 48..57 \/ c \in 65..90 \/ c \in 97..122
                \/ c \in {45, 95, 46}
             THEN <<c>>
             ELSE IF c < 16 THEN <<HexDigit(c)>>
                  ELSE <<HexDigit(c \div 16), HexDigit(c % 16)>>)
            \o PercentEscape(Tail(stg))

\* C14: the ref get_ref makes of a stage name is the branch, '/' and the
\* percent escape of the name, for names of any bytes on any build.
C14_RefIsPercentEscape ==
    stage_ref # <<>> => stage_ref = Branch \o <<47>> \o PercentEscape(name)

\* the absorb calls of a sequence that are all of the given kinds
CallsOf(cs, fns) == \A k \in 1..Len(cs) : cs[k].fn \in fns

\* C15: absorbing NULL and absorbing "" append different bytes, and two
\* accumulators that start with the one and the other and then absorb the
\* same calls stay different.
C15_NullIsNotEmpty ==
    ( /\ calls[1] # <<>> /\ calls[2] # <<>>
      /\ Head(calls[1]) = AbsorbCall("str", NullStr)
      /\ Head(calls[2]) = AbsorbCall("str", {<<>>})
      /\ Tail(calls[1]) = Tail(calls[2]) )
    => acc[1] # acc[2]

\* C15 case: NULL and "" absorbed, each followed by the same further call
C15_NullAndEmptyThenSame ==
    /\ Len(calls[1]) = 2 /\ Len(calls[2]) = 2
    /\ Head(calls[1]) = AbsorbCall("str", NullStr)
    /\ Head(calls[2]) = AbsorbCall("str", {<<>>})
    /\ Tail(calls[1]) = Tail(calls[2])

\* C16: two different sequences of absorb-string calls leave different
\* accumulators.
C16_StrFramingUnambiguous ==
    ( /\ CallsOf(calls[1], {"str"}) /\ CallsOf(calls[2], {"str"})
      /\ calls[1] # calls[2] )
    => acc[1] # acc[2]

\* C17: a NULL array, an empty array and a non-empty array append pairwise
\* different bytes, and two different sequences of absorb-string-list and
\* absorb-string calls leave different accumulators.
C17_StrvFramingUnambiguous ==
    /\ ( /\ Len(calls[1]) = 1 /\ Len(calls[2]) = 1
         /\ CallsOf(calls[1], {"strv"}) /\ CallsOf(calls[2], {"strv"})
         /\ calls[1] # calls[2] )
       => acc[1] # acc[2]
    /\ ( /\ CallsOf(calls[1], {"str", "strv"})
         /\ CallsOf(calls[2], {"str", "strv"})
         /\ calls[1] # calls[2] )
       => acc[1] # acc[2]

\* the bytes the claim gives for one absorb-unsigned-32 or absorb-boolean
\* call: byte i of a value is (val >> 8 * i) mod 256
ByteOf(val, i) ==
    IF i < 2 THEN (val.lo \div (256 ^ i)) % 256
    ELSE (val.hi \div (256 ^ (i - 2))) % 256
EncodedAs(call) ==
    IF call.fn = "uint32"
    THEN [i \in 1..4 |-> ByteOf(call.arg, i - 1)]
    ELSE IF call.arg # 0 THEN <<1>> ELSE <<0>>
RECURSIVE EncodedCalls(_)
EncodedCalls(cs) ==
    IF cs = <<>> THEN <<>>
    ELSE EncodedAs(Head(cs)) \o EncodedCalls(Tail(cs))

\* C18: absorb-unsigned-32 appends the four bytes of the value, least
\* significant first, and absorb-boolean one byte, 1 for true and 0 for
\* false; the accumulator is those bytes call after call, and read back
\* least significant byte first they give the value.
C18_Uint32AndBooleanBytes ==
    /\ acc[1] = EncodedCalls(calls[1])
    /\ \A k \in 1..Len(calls[1]) :
          calls[1][k].fn = "uint32" =>
             LET b == checksum_uint32_bytes(calls[1][k].arg)
             IN /\ Len(b) = 4
                /\ \A i \in 1..4 : b[i] \in 0..255
                /\ b[1] + 256 * b[2] = calls[1][k].arg.lo
                /\ b[3] + 256 * b[4] = calls[1][k].arg.hi

\* C18 case: 0xffff0100 absorbed, then a true gboolean that is not 1
C18_HighValueThenTrue ==
    /\ calls[1] = <<AbsorbCall("uint32", U32(65535, 256)),
                    AbsorbCall("boolean", 2)>>
    /\ acc[1] = <<0, 1, 255, 255, 1>>

\* C21: a lookup or an ensure_checkout whose checkout of Last Parent fails
\* ends the process inside the call: a call that has returned with Disabled
\* clear and Last Parent set before it, and not as a hit, has checked the
\* commit out; the call that ends the process returns nothing and leaves
\* Disabled clear; and the last call on an instance whose process has
\* ended is the call that ended it.
C21_FailedCheckoutEndsRun ==
    /\ ( /\ last.op \in {"lookup", "ensure_checkout"}
         /\ last.ret \in {"miss", "ok"}
         /\ ~last.before.disabled
         /\ last.before.last_parent # NoCommit )
       => /\ last.co = "replace"
          /\ \A p \in Paths :
                TreeEntry(app_dir[p]) = commits[last_parent].tree[p]
    /\ ( /\ last.op \in {"lookup", "ensure_checkout"}
         /\ last.ret = "abort" )
       => /\ ~alive
          /\ ~disabled
          /\ ~last.before.disabled /\ last.before.last_parent # NoCommit
          /\ [Snapshot EXCEPT !.stage = <<>>, !.unused_stages = {}]
             = [last.before EXCEPT !.stage = <<>>, !.unused_stages = {}]
    /\ ~alive => last.ret \in {"abort", "crash"}

\* C21 case: the checkout of a lookup's first miss has failed on an
\* instance whose Last Parent a hit had set
C21_LookupCheckoutFailed ==
    /\ last.op = "lookup" /\ last.ret = "abort"
    /\ ~alive
    /\ last_parent \in DOMAIN commits
    /\ run = 2

\* C22: no transaction is open on the store when commit() has returned,
\* with success or with failure, and no lookup, diff or builder_gc runs on
\* a store with a transaction open; a commit() on a store with a
\* transaction open opens no second one.
C22_NoTransactionLeftOpen ==
    /\ (last.op = "commit" /\ last.ret \in {"ok", "fail"}) => ~in_transaction
    /\ last.op \in {"lookup", "outstanding_changes", "all_changes",
                    "changes", "gc"}
       => ~last.before.in_transaction
    /\ (last.op = "commit" /\ last.before.in_transaction)
       => last.ret = "fail" /\ refs = last.before.refs

\* C23: get_outstanding_changes called right after a commit() that returned
\* success succeeds and returns no added, no modified and no removed path,
\* with and without rofiles (where the second commit has been checked out
\* over the directory).
C23_NoChangesAfterCommit ==
    [][( /\ last.op = "commit" /\ last.ret = "ok"
         /\ builder_cache_get_outstanding_changes(TRUE) )
       => /\ last'.ret = "ok"
          /\ last'.out.added = {}
          /\ last'.out.modified = {}
          /\ last'.out.removed = {}]_vars

\* C23 case: no changes reported on a directory whose file is as the
\* checkout of the second commit has left it, hardlinked into the store
C23_NothingOutstandingOverCheckout ==
    /\ last.op = "outstanding_changes" /\ last.ret = "ok"
    /\ last.out.added = {} /\ last.out.modified = {} /\ last.out.removed = {}
    /\ use_rofiles /\ rofiles_active
    /\ \E p \in Paths : app_dir[p] = RegFile(1, 2)
    /\ commits[last_parent].tree = FullTree

\* the paths a tree diff of ta against tb tells apart
AddedPaths(ta, tb) ==
    { p \in Paths : ta[p].kind = "none" /\ tb[p].kind # "none" }
RemovedPaths(ta, tb) ==
    { p \in Paths : ta[p].kind # "none" /\ tb[p].kind = "none" }
ModifiedPaths(ta, tb) ==
    { p \in Paths : ta[p].kind # "none" /\ tb[p].kind # "none" /\ ta[p] # tb[p] }
\* the two trees the call that has just returned has compared
DiffFrom ==
    LET b == last.before
    IN IF last.op = "outstanding_changes" THEN b.commits[b.last_parent].tree
       ELSE IF last.op = "all_changes"
       THEN b.commits[b.refs[get_ref(StageInit)]].tree
       ELSE IF b.commits[b.last_parent].parent = NoCommit THEN EmptyTree
            ELSE b.commits[b.commits[b.last_parent].parent].tree
DiffTo ==
    LET b == last.before
    IN IF last.op = "outstanding_changes"
       THEN [p \in Paths |-> TreeEntry(b.app_dir[p])]
       ELSE IF last.op = "all_changes"
       THEN b.commits[b.refs[get_ref(StageFinish)]].tree
       ELSE b.commits[b.last_parent].tree
\* the paths the call has returned
ReportedPaths == last.out.added \cup last.out.modified \cup last.out.removed

\* C24: get_outstanding_changes, get_changes and get_all_changes return
\* every added, every modified and every removed path of the diff of the
\* two trees they compare.
C24_DiffReportsAllThreeSets ==
    ( /\ last.op \in {"outstanding_changes", "changes", "all_changes"}
      /\ last.ret = "ok" )
    => /\ AddedPaths(DiffFrom, DiffTo) \subseteq ReportedPaths
       /\ ModifiedPaths(DiffFrom, DiffTo) \subseteq ReportedPaths
       /\ RemovedPaths(DiffFrom, DiffTo) \subseteq ReportedPaths

\* C25: every diff that get_outstanding_changes, get_changes and
\* get_all_changes ask of the store is asked with extended attributes
\* ignored.
C25_DiffsIgnoreXattrs ==
    ( /\ last.op \in {"outstanding_changes", "changes", "all_changes"}
      /\ last.ret = "ok" )
    => last.out.xattrs = "ignored"

\* C26: get_outstanding_changes, get_changes and get_all_changes, returning
\* success or failure, leave the refs and commits of the store, Last
\* Parent, Disabled, the current stage, unused_stages and the accumulator
\* (and the directory) as they found them.
C26_DiffsAreReadOnly ==
    last.op \in {"outstanding_changes", "changes", "all_changes"}
    => /\ Snapshot = last.before
       /\ alive

\* C26 case: a diff has failed on an instance with a Last Parent, a stage,
\* absorbed bytes and an unused stage left
C26_FailedDiffOnBusyInstance ==
    /\ last.op \in {"outstanding_changes", "changes", "all_changes"}
    /\ last.ret = "fail"
    /\ last_parent # NoCommit /\ refs # <<>>
    /\ stage # <<>> /\ checksum # <<>> /\ unused_stages # {}

\* C27: a builder_gc that returns success has deleted the ref of every key
\* of unused_stages and then pruned the store, so that the commits left are
\* those the remaining refs reach; one that has left such a ref in the
\* store returns failure and has not pruned; one that returns failure has
\* removed no commit; and builder_gc removes no other ref.
C27_DeleteThenPrune ==
    last.op = "gc" =>
       LET b == last.before
           left == { u \in b.unused_stages : get_ref(u) \in DOMAIN refs }
       IN /\ last.ret \in {"ok", "fail"}
          /\ left # {} => (last.ret = "fail" /\ commits = b.commits)
          /\ last.ret = "fail" => commits = b.commits
          /\ last.ret = "ok" => commits = ostree_repo_prune(refs, b.commits)
          /\ \A r \in DOMAIN b.refs :
                IF r \in { get_ref(u) : u \in b.unused_stages \ left }
                THEN r \notin DOMAIN refs
                ELSE r \in DOMAIN refs /\ refs[r] = b.refs[r]
          /\ DOMAIN refs \subseteq DOMAIN b.refs

\* C27 case: a builder_gc has deleted a ref and pruned the commits that
\* only this ref reached
C27_PrunedAfterDelete ==
    /\ last.op = "gc" /\ last.ret = "ok"
    /\ last.before.unused_stages # {}
    /\ DOMAIN refs # DOMAIN last.before.refs
    /\ DOMAIN commits # DOMAIN last.before.commits
    /\ \E c \in DOMAIN last.before.commits \ DOMAIN commits :
          c \in { last.before.refs[r] : r \in DOMAIN last.before.refs }

\* C28: commit() does not look at the result of the lookup before it: on
\* an instance with a stage, no transaction open and every store call
\* succeeding it returns success whether Disabled is set or not, writes a
\* commit the store did not hold and points the stage ref at it, also when
\* the ref existed; and no commit(), whatever it returns, changes Disabled
\* or unused_stages.
C28_CommitNotGatedOnLookup ==
    [][\A body \in Bodies, fail \in CommitSteps :
          builder_cache_commit(body, fail) =>
             /\ disabled' = disabled
             /\ unused_stages' = unused_stages
             /\ (fail = "none" /\ stage # <<>> /\ ~in_transaction) =>
                   /\ last'.ret = "ok"
                   /\ nextId \notin DOMAIN commits
                   /\ nextId \in DOMAIN commits'
                   /\ refs'[get_ref(stage[1])] = nextId]_vars

\* C28 case: a commit() right after a hit has succeeded and has moved the
\* stage ref from the commit that was hit to a new one, Disabled still
\* clear
C28_CommitAfterHit ==
    /\ last.op = "commit" /\ last.ret = "ok"
    /\ ~disabled /\ ~last.before.disabled
    /\ get_ref(stage[1]) \in DOMAIN last.before.refs
    /\ last.before.last_parent = last.before.refs[get_ref(stage[1])]
    /\ refs[get_ref(stage[1])] # last.before.refs[get_ref(stage[1])]
    /\ refs[get_ref(stage[1])] \notin DOMAIN last.before.commits

\* C29: the second commit of a commit() that returned success holds every
\* directory of the working directory, a regular file exactly when its
\* link count is 1, and no symbolic link; it has no parent, the subject of
\* the first commit, and no ref resolves to it.
C29_SecondCommitOnlyUnlinked ==
    (last.op = "commit" /\ last.ret = "ok") =>
       LET c1 == last_parent
           c2 == last_parent + 1
           dir == last.before.app_dir
       IN /\ c2 \in DOMAIN commits /\ c2 \notin DOMAIN last.before.commits
          /\ \A p \in Paths :
                /\ dir[p].kind = "dir" => commits[c2].tree[p].kind = "dir"
                /\ dir[p].kind = "reg" =>
                      IF dir[p].nlink = 1
                      THEN commits[c2].tree[p] = [kind |-> "reg", c |-> dir[p].c]
                      ELSE commits[c2].tree[p].kind = "none"
                /\ dir[p].kind \in {"lnk", "none"} =>
                      commits[c2].tree[p].kind = "none"
          /\ commits[c2].parent = NoCommit
          /\ commits[c2].subject = commits[c1].subject
          /\ \A r \in DOMAIN refs : refs[r] # c2

\* C29 case: a commit() over a directory whose file is hardlinked into the
\* store: the first commit holds the file, the second does not
C29_HardlinkedFileLeftOut ==
    /\ last.op = "commit" /\ last.ret = "ok"
    /\ \E p \in Paths :
          /\ last.before.app_dir[p] = RegFile(1, 2)
          /\ commits[last_parent].tree[p].kind = "reg"
          /\ commits[last_parent + 1].tree[p].kind = "none"

\* C30: commit() checks the second commit out over the working directory,
\* deleting nothing, exactly when the build uses rofiles; the checkout
\* comes after the transaction is committed (when it fails the commits and
\* the ref are in the store) and before Last Parent is assigned (when it
\* fails Last Parent is as it was).
C30_CheckoutAfterTransaction ==
    [][\A body \in Bodies, fail \in BuildFaults :
          (builder_cache_commit(body, fail) /\ stage # <<>>) =>
             LET c1 == nextId
                 c2 == nextId + 1
                 linked(e) == [kind |-> e.kind, c |-> e.c,
                               nlink |-> IF e.kind = "reg" THEN 2 ELSE 1]
             IN /\ c1 \in DOMAIN commits' /\ c2 \in DOMAIN commits'
                /\ refs'[get_ref(stage[1])] = c1
                /\ IF ~use_rofiles
                   THEN /\ last'.ret = "ok" /\ last'.co = "none"
                        /\ app_dir' = app_dir
                        /\ rofiles_active' = rofiles_active
                        /\ last_parent' = c1
                   ELSE IF fail = "checkout"
                   THEN /\ last'.ret = "fail" /\ last'.co = "none"
                        /\ app_dir' = app_dir
                        /\ last_parent' = last_parent
                   ELSE /\ last'.ret = "ok" /\ last'.co = "union"
                        /\ rofiles_active'
                        /\ last_parent' = c1
                        /\ \A p \in Paths :
                              app_dir'[p] =
                                 IF commits'[c2].tree[p].kind = "none"
                                 THEN app_dir[p]
                                 ELSE linked(commits'[c2].tree[p])]_vars

\* C30 case: with rofiles, a commit() has checked its second commit out
\* over a directory whose symbolic link, which that commit does not hold,
\* is still there
C30_CheckedOutOverLink ==
    /\ last.op = "commit" /\ last.ret = "ok" /\ last.co = "union"
    /\ use_rofiles
    /\ \E p \in Paths :
          /\ last.before.app_dir[p] = SymLink
          /\ commits[last_parent + 1].tree[p].kind = "none"
          /\ app_dir[p] = SymLink

\* the tree the checkout of the call that has just returned has laid out
CheckedOutTree ==
    IF last.co = "union" THEN commits[last_parent + 1].tree
    ELSE commits[last_parent].tree

\* C31: a checkout gives the directory hardlinks into the store exactly
\* when rofiles-fuse is active: the regular files a checkout has written
\* have link count 2 when it is active and link count 1, copies that the
\* build can change without changing the store, when it is not.
C31_HardlinksOnlyUnderRofiles ==
    last.co \in {"replace", "union"} =>
       /\ rofiles_active = use_rofiles
       /\ \A p \in Paths :
             CheckedOutTree[p].kind = "reg" =>
                app_dir[p] = RegFile(CheckedOutTree[p].c,
                                     IF rofiles_active THEN 2 ELSE 1)

\* C31 case: without rofiles a lookup's miss has checked out a commit
\* that holds a file, and the file in the directory is a copy
C31_CopiedWithoutRofiles ==
    /\ last.op = "lookup" /\ last.co = "replace"
    /\ ~use_rofiles /\ ~rofiles_active
    /\ \E p \in Paths :
          /\ commits[last_parent].tree[p].kind = "reg"
          /\ app_dir[p].nlink = 1

----------------------------------------------------------------------------
\* The command-line transaction: flatpak_cli_transaction_run and the
\* operation_error handler the transaction calls while it runs.

\* operation errors reported in one run
MaxOpErrors == 3

\* the codes of FLATPAK_ERROR the handler and the run tell apart, and one
\* that stands for every other
ErrorCodes == {"SKIPPED", "ALREADY_INSTALLED", "OTHER"}

\* the n-th error the transaction reports
OpError(code, n) == [code |-> code, n |-> n, prefix |-> ""]

\* g_propagate_prefixed_error (&dest, g_error_copy (error), "Failed to ...")
g_propagate_prefixed_error(error) == [error EXCEPT !.prefix = "Failed to"]

\* flatpak_fail (error, "There were one or more errors")
OneOrMoreErrors == [code |-> "FAILED", n |-> 0, prefix |-> "one or more"]

\* what flatpak_transaction_run leaves in local_error
RunError(result) ==
    IF result = "ok" THEN NoError
    ELSE [code |-> result, n |-> 0, prefix |-> ""]

\* the handler stores the error
operation_error_stores_any(error, non_fatal) == TRUE
operation_error_stores(error, non_fatal) ==
    ~non_fatal /\ first_operation_error = NoError

\* the handler tells the transaction to go on
operation_error_stops_on_warning(error, non_fatal) == ~stop_on_first_error
operation_error_continues(error, non_fatal) ==
    ~(~non_fatal /\ stop_on_first_error)

\* what operation_error returns, TRUE to continue
operation_error_ret(error, non_fatal) ==
    IF error.code = "SKIPPED" THEN TRUE
    ELSE operation_error_continues(error, non_fatal)

\* the transaction has been told to stop
Stopped == handled # <<>> /\ ~handled[Len(handled)].ret

\* the "operation-error" signal: an operation of the running transaction
\* failed with error, detail carrying the NON_FATAL flag or not
operation_error(code, non_fatal) ==
    LET error == OpError(code, Len(handled) + 1)
    IN /\ cli_pc = "running"
       /\ ~Stopped
       /\ Len(handled) < MaxOpErrors
       /\ first_operation_error' =
            IF error.code # "SKIPPED" /\ operation_error_stores(error, non_fatal)
            THEN g_propagate_prefixed_error(error)
            ELSE first_operation_error
       /\ handled' = Append(handled,
                            [error |-> error, non_fatal |-> non_fatal,
                             ret |-> operation_error_ret(error, non_fatal)])
       /\ UNCHANGED <<stop_on_first_error, aborted, cli_pc, cli_result>>
       /\ UNCHANGED <<cacheVars, drvVars, name, signed_char, stage_ref, acc,
                      calls>>

\* how flatpak_transaction_run can end: with success, with
\* FLATPAK_ERROR_ABORTED, with any other error.  A handler that returned
\* FALSE ends it with FLATPAK_ERROR_ABORTED.
RunResults == IF Stopped THEN {"ABORTED"} ELSE {"ok", "ABORTED", "CANCELLED"}

\* the run fails although the transaction did not: an operation error is
\* stored
run_reports_after_failure(res) == ~res /\ first_operation_error # NoError
run_reports_operation_error(res) == first_operation_error # NoError

\* flatpak_cli_transaction_run, from the return of flatpak_transaction_run
flatpak_cli_transaction_run(result) ==
    LET res == result = "ok"
        local_error == RunError(result)
    IN /\ cli_pc = "running"
       /\ result \in RunResults
       /\ cli_pc' = "done"
       /\ IF ~res /\ local_error.code # "ABORTED"
          THEN /\ cli_result' = [res |-> FALSE, error |-> local_error,
                                 run |-> result]
               /\ UNCHANGED <<aborted, first_operation_error>>
          ELSE /\ aborted' = (aborted \/ ~res)
               /\ IF run_reports_operation_error(res)
                  THEN IF stop_on_first_error
                       THEN /\ cli_result' = [res |-> FALSE,
                                              error |-> first_operation_error,
                                              run |-> result]
                            /\ first_operation_error' = NoError
                       ELSE /\ cli_result' = [res |-> FALSE,
                                              error |-> OneOrMoreErrors,
                                              run |-> result]
                            /\ UNCHANGED first_operation_error
                  ELSE /\ cli_result' = [res |-> TRUE, error |-> NoError,
                                         run |-> result]
                       /\ UNCHANGED first_operation_error
       /\ UNCHANGED <<stop_on_first_error, handled>>
       /\ UNCHANGED <<cacheVars, drvVars, name, signed_char, stage_ref, acc,
                      calls>>

\* flatpak_cli_transaction_new (..., stop_on_first_error, ...), and
\* flatpak_cli_transaction_run has called flatpak_transaction_run
InitCli ==
    /\ InitCache
    /\ use_rofiles = FALSE
    /\ abort_fails = FALSE
    /\ name = <<>>
    /\ signed_char = TRUE
    /\ stage_ref = <<>>
    /\ acc = <<<<>>, <<>>>>
    /\ calls = <<<<>>, <<>>>>
    /\ stop_on_first_error \in BOOLEAN
    /\ first_operation_error = NoError
    /\ aborted = FALSE
    /\ cli_pc = "running"
    /\ handled = <<>>
    /\ cli_result = [res |-> TRUE, error |-> NoError, run |-> "none"]

NextCli ==
    \/ \E code \in ErrorCodes, non_fatal \in BOOLEAN :
          operation_error(code, non_fatal)
    \/ \E result \in {"ok", "ABORTED", "CANCELLED"} :
          flatpak_cli_transaction_run(result)

SpecCli == InitCli /\ [][NextCli]_vars

\* the fatal errors among the operation errors of the run: neither skipped
\* nor flagged non-fatal
IsFatal(h) == h.error.code # "SKIPPED" /\ ~h.non_fatal
FatalErrors == SelectSeq(handled, IsFatal)

\* C32: flatpak_cli_transaction_run fails whenever the run saw a fatal
\* operation error, also when the transaction itself returned success or
\* ended with ABORTED: it then returns the first fatal operation error if
\* stop_on_first_error is set and the "one or more errors" error if not.
\* It returns success only if there was no fatal operation error and the
\* transaction succeeded or ended with ABORTED.
C32_RunFailsOnOperationError ==
    cli_pc = "done" =>
        /\ FatalErrors # <<>> => ~cli_result.res
        /\ (FatalErrors # <<>> /\ cli_result.run \in {"ok", "ABORTED"}) =>
              cli_result.error =
                  IF stop_on_first_error
                  THEN g_propagate_prefixed_error(FatalErrors[1].error)
                  ELSE OneOrMoreErrors
        /\ cli_result.res =>
              FatalErrors = <<>> /\ cli_result.run \in {"ok", "ABORTED"}

\* the transaction returned success after a fatal operation error that was
\* not the first error of the run
C32_SuccessfulRunWithError ==
    /\ cli_pc = "done"
    /\ cli_result.run = "ok"
    /\ Len(handled) >= 2
    /\ ~IsFatal(handled[1])
    /\ IsFatal(handled[2])
    /\ ~cli_result.res

\* C39: operation_error returns FALSE (stop) exactly for an error that is
\* not "skipped" and not flagged non-fatal while stop_on_first_error is
\* set, and TRUE (continue) otherwise; first_operation_error is set only
\* by such a fatal error and only while it is still NULL, so it holds the
\* first fatal error of the run.
C39_HandlerStopsOnFirstFatal ==
    /\ \A i \in 1..Len(handled) :
          handled[i].ret = ~(IsFatal(handled[i]) /\ stop_on_first_error)
    /\ cli_pc = "running" =>
          first_operation_error =
              IF FatalErrors = <<>> THEN NoError
              ELSE g_propagate_prefixed_error(FatalErrors[1].error)

\* a skipped error without the non-fatal flag, then two fatal errors: the
\* handler let the transaction go on and kept the first of the two
C39_SecondFatalErrorNotStored ==
    /\ cli_pc = "running"
    /\ Len(handled) = 3
    /\ handled[1].error.code = "SKIPPED" /\ ~handled[1].non_fatal
    /\ IsFatal(handled[2]) /\ IsFatal(handled[3])
    /\ first_operation_error.n = 2

\* C33: get_ref is injective: no other stage name gives the ref that
\* get_ref gave for this one (same branch, same build).
C33_RefIsInjective ==
    stage_ref # <<>> =>
        \A other \in StringsUpTo(NameBytes, MaxNameLen) :
            other # name => get_ref_char(signed_char, other) # stage_ref

\* the commits the stage refs of the branch point at
StageRefTargets ==
    { refs[get_ref_char(TRUE, u)] : u \in ostree_repo_list_refs(Branch) }

\* C34: while last_parent is set it names a commit that is in the store
\* and that some stage ref of the branch reaches, itself or through parent
\* links.
C34_LastParentReachable ==
    (alive /\ last_parent # NoCommit) =>
        /\ last_parent \in DOMAIN commits
        /\ last_parent \in ParentClosure(commits, StageRefTargets)

\* C35: when has_checkout() is true and last_parent comes from a lookup
\* hit, this instance has put that commit into the application directory.
\* Stated on the call that follows the hit: if has_checkout() is true
\* after it, the call has made the delete-and-replace checkout (a commit
\* leaves has_checkout() false).
C35_HasCheckoutMeansCheckedOut ==
    [][(/\ last.op = "lookup" /\ last.ret = "hit"
        /\ alive'
        /\ builder_cache_has_checkout')
       => last'.co = "replace"]_vars

\* C36: builder_cache_commit calls ostree_repo_abort_transaction only
\* while the transaction it has opened is open: not before
\* ostree_repo_prepare_transaction has succeeded and not after
\* ostree_repo_commit_transaction has.
C36_AbortOnlyInsideTransaction ==
    (last.op = "commit" /\ last.abort # "none") =>
        /\ last.abort = "open"
        /\ ~last.before.in_transaction
        /\ commits = last.before.commits
        /\ refs = last.before.refs

\* C37: a commit() that returns success changes one ref and no other: the
\* ref of the stage of the most recent lookup now points at the new first
\* commit, and every other ref is there as before with the commit it had.
C37_CommitChangesOneRef ==
    (last.op = "commit" /\ last.ret = "ok") =>
        LET ref == get_ref(last.before.stage[1])
        IN /\ DOMAIN refs = DOMAIN last.before.refs \cup {ref}
           /\ refs[ref] \notin DOMAIN last.before.commits
           /\ refs[ref] = last_parent
           /\ \A r \in DOMAIN last.before.refs :
                 r # ref => refs[r] = last.before.refs[r]

\* a commit() has succeeded on a store that held the ref of another stage
C37_CommitBesideOtherRef ==
    /\ last.op = "commit" /\ last.ret = "ok"
    /\ \E r \in DOMAIN last.before.refs :
          /\ r # get_ref(last.before.stage[1])
          /\ refs[r] = last.before.refs[r]

\* C38: one instance makes the delete-and-replace checkout of last_parent
\* at most once: the call that makes it finds Disabled unset and leaves it
\* set, and Disabled stays set for the rest of the instance.
C38_ReplaceCheckoutAtMostOnce ==
    [][/\ (last' # last /\ last'.co = "replace") => (~disabled /\ disabled')
       /\ (disabled /\ run' = run) => disabled']_vars

\* a lookup that missed after a hit has made the checkout; has_checkout()
\* is true from here on
C38_CheckedOutOnFirstMiss ==
    /\ last.op = "lookup" /\ last.ret = "miss" /\ last.co = "replace"
    /\ ~last.before.disabled
    /\ builder_cache_has_checkout

====
